---------------------------- MODULE Spec2Model ----------------------------
(***************************************************************************)
(* A model of server.py: USPSLabelGenerator (find_matrix_slots,            *)
(* fetch_usps_zone, __gs1_element_string, generate_pdf_bytes).              *)
(*                                                                         *)
(* Strings are TLA+ strings.  Python's None is the string None below, a    *)
(* value no request string takes.  A dict is a function whose domain is    *)
(* its set of keys.  Lengths on the page are in tenths of a page unit, so  *)
(* that the insets 0.5, 1.5 and 2.2 of the source are integers.            *)
(***************************************************************************)
EXTENDS Integers, Sequences, FiniteSets, TLC

VARIABLES
    pc,             \* position of the generate_pdf_bytes call
    tpl,            \* the template page: text occurrences and image rects
    request,        \* the request dict as the caller passed it
    data,           \* the working request dict
    doc,            \* "none" | "open" | "closed"
    found_coords,   \* dict: key -> primary rect, matrix_slots, barcode_slot
    insert_queue,   \* list of {"rect", "key"}
    rand_ids,       \* [r028w, r2000]: the two random replacement strings
    looked_up_zone, \* result of fetch_usps_zone
    requests,       \* outbound session.get calls issued so far
    i,              \* loop index (phase 1: anchor number, phase 2: queue index)
    matrices_done,  \* the one-shot guard of the DataMatrix block
    trace,          \* page and renderer calls made so far, in order
    result,         \* "none" | "bytes" (returned) | "raised"
    probe           \* a call of one of the pure functions: arguments and result

vars == <<pc, tpl, request, data, doc, found_coords, insert_queue, rand_ids,
          looked_up_zone, requests, i, matrices_done, trace, result, probe>>

pipeVars == <<pc, tpl, request, data, doc, found_coords, insert_queue, rand_ids,
              looked_up_zone, requests, i, matrices_done, trace, result>>

----------------------------------------------------------------------------
(* Bounds of the model *)

\* most occurrences of one anchor text on the page
MaxOcc == 2
\* random draws are taken from 0..MaxRandDraw
MaxRandDraw == 0
\* longest generated postal-code / tracking string of the pure-function calls
MaxStrLen == 6
\* longest generated string of the payload calls
MaxPayLen == 3
\* most image placements on a probed page
MaxImages == 4

----------------------------------------------------------------------------
(* Python values *)

None == "<None>"
NoDict == <<>>

Get(d, k, default) == IF k \in DOMAIN d THEN d[k] ELSE default
Truthy(s) == s # None /\ s # ""
OrEmpty(s) == IF Truthy(s) THEN s ELSE ""
PyStr(s) == IF s = None THEN "None" ELSE s
Put(d, k, v) == [x \in DOMAIN d \cup {k} |-> IF x = k THEN v ELSE d[x]]

Digits == {"0", "1", "2", "3", "4", "5", "6", "7", "8", "9"}
\* the whitespace characters of the model's strings
Spaces == {" ", "\t", "\n"}

RECURSIVE digitsOnly(_)
\* re.sub(r"[^0-9]", "", s)
digitsOnly(s) ==
    IF Len(s) = 0 THEN ""
    ELSE (IF SubSeq(s, 1, 1) \in Digits THEN SubSeq(s, 1, 1) ELSE "")
         \o digitsOnly(SubSeq(s, 2, Len(s)))

RECURSIVE lstrip(_)
lstrip(s) ==
    IF Len(s) > 0 /\ SubSeq(s, 1, 1) \in Spaces THEN lstrip(SubSeq(s, 2, Len(s))) ELSE s

RECURSIVE rstrip(_)
rstrip(s) ==
    IF Len(s) > 0 /\ SubSeq(s, Len(s), Len(s)) \in Spaces
    THEN rstrip(SubSeq(s, 1, Len(s) - 1)) ELSE s

\* str.strip()
strip(s) == rstrip(lstrip(s))

\* str.isdigit()
isdigit(s) == Len(s) > 0 /\ \A n \in 1..Len(s) : SubSeq(s, n, n) \in Digits

RECURSIVE StrsUpTo(_, _)
\* every string over the alphabet of at most n characters
StrsUpTo(alphabet, n) ==
    IF n = 0 THEN {""}
    ELSE LET P == StrsUpTo(alphabet, n - 1)
         IN  P \cup {s \o c : s \in P, c \in alphabet}

----------------------------------------------------------------------------
(* Geometry: fitz.Rect, lengths in tenths of a page unit *)

U(n) == 10 * n

Rect(x0, y0, x1, y1) == [x0 |-> x0, y0 |-> y0, x1 |-> x1, y1 |-> y1]
Width(r) == r.x1 - r.x0
Height(r) == r.y1 - r.y0
Abs(n) == IF n < 0 THEN 0 - n ELSE n
Max(a, b) == IF a >= b THEN a ELSE b

----------------------------------------------------------------------------
(* find_matrix_slots *)

\* ar < 0.85 or ar > 1.18 rejects; ar = w / h
AspectLoPct == 85
AspectHiPct == 118
\* w < 20 or h < 20 rejects; w > 160 or h > 160 rejects
SlotMinSide == 20
SlotMaxSide == 160
\* dedupe: every edge differs by less than 1
DedupeDist == 1
\* generate_pdf_bytes asks for want=2
WantSlots == 2

\* not (ar < 0.85 or ar > 1.18)
SquareIsh(w, h) == 100 * w >= AspectLoPct * h /\ 100 * w <= AspectHiPct * h

\* the filter of the candidate loop: an image rect that is kept
IsCandidate(r) ==
    LET w == Width(r)
        h == Height(r)
    IN  /\ ~(w <= 0 \/ h <= 0)
        /\ SquareIsh(w, h)
        /\ ~(w < U(SlotMinSide) \/ h < U(SlotMinSide))
        /\ ~(w > U(SlotMaxSide) \/ h > U(SlotMaxSide))

Area(r) == Width(r) * Height(r)

SortsBeforeAscendingY(a, b) ==
    Area(a) < Area(b) \/ (Area(a) = Area(b) /\ a.y0 < b.y0)

\* the sort key (area, -y0): a strictly before b
SortsBefore(a, b) ==
    Area(a) < Area(b) \/ (Area(a) = Area(b) /\ (0 - a.y0) < (0 - b.y0))

RECURSIVE InsertSorted(_, _)
\* c placed after every element that does not sort after it (list.sort is stable)
InsertSorted(sorted, c) ==
    IF sorted = <<>> THEN <<c>>
    ELSE IF SortsBefore(c, Head(sorted)) THEN <<c>> \o sorted
    ELSE <<Head(sorted)>> \o InsertSorted(Tail(sorted), c)

RECURSIVE SortCandidates(_, _)
SortCandidates(cands, acc) ==
    IF cands = <<>> THEN acc
    ELSE SortCandidates(Tail(cands), InsertSorted(acc, Head(cands)))

NearIdentical(r, s) ==
    /\ Abs(r.x0 - s.x0) < U(DedupeDist)
    /\ Abs(r.y0 - s.y0) < U(DedupeDist)
    /\ Abs(r.x1 - s.x1) < U(DedupeDist)
    /\ Abs(r.y1 - s.y1) < U(DedupeDist)

RECURSIVE PickSlots(_, _, _)
\* the slot loop: skip near-identical rects, stop at want
PickSlots(cands, slots, want) ==
    IF cands = <<>> THEN slots
    ELSE LET r == Head(cands)
         IN  IF \E n \in 1..Len(slots) : NearIdentical(r, slots[n])
             THEN PickSlots(Tail(cands), slots, want)
             ELSE IF Len(slots) + 1 >= want THEN Append(slots, r)
             ELSE PickSlots(Tail(cands), Append(slots, r), want)

find_matrix_slots(images, want) ==
    LET candidates == SelectSeq(images, IsCandidate)
    IN  IF candidates = <<>> THEN <<>>
        ELSE PickSlots(SortCandidates(candidates, <<>>), <<>>, want)

----------------------------------------------------------------------------
(* __gs1_element_string and the code128 content of the barcode block *)

GS == "<GS>"

gs1_wrong_ai(to_zip, tracking_digits) ==
    "(420)" \o digitsOnly(OrEmpty(to_zip)) \o "(91)" \o OrEmpty(tracking_digits)

_gs1_element_string(to_zip, tracking_digits) ==
    LET clean_zip == digitsOnly(OrEmpty(to_zip))
        clean_track == digitsOnly(OrEmpty(tracking_digits))
    IN  "(420)" \o clean_zip \o "(91)" \o clean_track

\* clean_track / clean_zip / barcode_content of the barcode block; re.sub raises
\* TypeError on None, which the block's except catches
barcode_content(to_zip, tracking) ==
    IF tracking = None \/ to_zip = None THEN [raised |-> TRUE, value |-> ""]
    ELSE [raised |-> FALSE,
          value |-> "420" \o digitsOnly(to_zip) \o GS \o digitsOnly(tracking)]

\* " ".join(re.findall(r".{1,4}", clean_track)).strip()
RECURSIVE GroupsOf4(_)
GroupsOf4(s) ==
    IF Len(s) <= 4 THEN s
    ELSE SubSeq(s, 1, 4) \o " " \o GroupsOf4(SubSeq(s, 5, Len(s)))

display_text(tracking) == strip(GroupsOf4(digitsOnly(tracking)))

----------------------------------------------------------------------------
(* fetch_usps_zone *)

LetterString == "abcdefghijklmnopqrstuvwxyzABCDEFGHIJKLMNOPQRSTUVWXYZ"
WordChars == Digits \cup {"_"} \cup {SubSeq(LetterString, n, n) : n \in 1..Len(LetterString)}

CharAt(s, n) == SubSeq(s, n, n)

\* \b between positions n-1 and n of s (n in 1..Len(s)+1)
WordBoundary(s, n) ==
    LET before == n > 1 /\ CharAt(s, n - 1) \in WordChars
        after == n <= Len(s) /\ CharAt(s, n) \in WordChars
    IN  before # after

RECURSIVE RunEnd(_, _, _)
\* the first position at or after n whose character is not in chars
RunEnd(s, n, chars) ==
    IF n <= Len(s) /\ CharAt(s, n) \in chars THEN RunEnd(s, n + 1, chars) ELSE n

ZonePhrase == "The Zone is"

\* r"\bThe Zone is\s+(\d+)\b" matched at position n: the digits, or None
ZoneMatchAt(s, n) ==
    LET a == n + Len(ZonePhrase)
        b == RunEnd(s, a, Spaces)
        c == RunEnd(s, b, Digits)
    IN  IF /\ a - 1 <= Len(s)
           /\ SubSeq(s, n, a - 1) = ZonePhrase
           /\ WordBoundary(s, n)
           /\ b > a
           /\ c > b
           /\ WordBoundary(s, c)
        THEN SubSeq(s, b, c - 1)
        ELSE None

RECURSIVE ZoneSearchFrom(_, _)
\* re.search: the leftmost match
ZoneSearchFrom(s, n) ==
    IF n > Len(s) THEN None
    ELSE IF ZoneMatchAt(s, n) # None THEN ZoneMatchAt(s, n)
    ELSE ZoneSearchFrom(s, n + 1)

ZoneKeys == <<"Zone", "zone", "ZoneNumber", "zoneNumber">>

RECURSIVE ScanZoneKeys(_, _)
\* for k in ("Zone", "zone", "ZoneNumber", "zoneNumber"): the first numeric value
ScanZoneKeys(js, n) ==
    IF n > Len(ZoneKeys) THEN None
    ELSE IF ZoneKeys[n] \in DOMAIN js /\ isdigit(strip(PyStr(js[ZoneKeys[n]])))
         THEN strip(PyStr(js[ZoneKeys[n]]))
    ELSE ScanZoneKeys(js, n + 1)

\* A response of the zone service: kind is "transport_error" (session.get
\* raises), "http_error" (raise_for_status raises), "bad_json" (r.json raises)
\* or "json"; a json body is a dict ("dict"), null ("null") or a non-empty
\* list ("list").
Response(kind, shape, d) == [kind |-> kind, shape |-> shape, d |-> d]

\* the body of the try block: the exception raised in it, or the value returned
ZoneTryBody(resp) ==
    IF resp.kind = "transport_error" THEN [exc |-> "ConnectionError", ret |-> None]
    ELSE IF resp.kind = "http_error" THEN [exc |-> "HTTPError", ret |-> None]
    ELSE IF resp.kind = "bad_json" THEN [exc |-> "JSONDecodeError", ret |-> None]
    ELSE IF resp.shape = "list" THEN [exc |-> "AttributeError", ret |-> None]
    ELSE LET js == IF resp.shape = "dict" THEN resp.d ELSE NoDict
             zi == OrEmpty(Get(js, "ZoneInformation", ""))
             m == ZoneSearchFrom(zi, 1)
         IN  IF m # None THEN [exc |-> "", ret |-> m]
             ELSE [exc |-> "", ret |-> ScanZoneKeys(js, 1)]

RequestExceptions == {"ConnectionError", "HTTPError"}

CaughtOnlyRequestErrors(exc) == exc \in RequestExceptions

\* except Exception: every exception of the try block is an Exception
Caught(exc) == TRUE

\* the early return is not taken: the request is issued
ZoneRequestIssued(origin_zip, destination_zip, shipping_date) ==
    LET o == digitsOnly(OrEmpty(origin_zip))
        d == digitsOnly(OrEmpty(destination_zip))
        sd == strip(OrEmpty(shipping_date))
    IN  ~(Len(o) # 5 \/ Len(d) # 5 \/ sd = "")

\* [zone: the value returned, calls: session.get calls made, raised: an
\*  exception left the function]
fetch_usps_zone(origin_zip, destination_zip, shipping_date, resp) ==
    IF ~ZoneRequestIssued(origin_zip, destination_zip, shipping_date)
    THEN [zone |-> "", calls |-> 0, raised |-> FALSE]
    ELSE LET body == ZoneTryBody(resp)
         IN  IF body.exc # ""
             THEN [zone |-> "", calls |-> 1, raised |-> ~Caught(body.exc)]
             ELSE [zone |-> IF body.ret # None THEN body.ret ELSE "",
                   calls |-> 1, raised |-> FALSE]

\* responses of the zone service the model draws from
ZoneResponses ==
    { Response("transport_error", "", NoDict),
      Response("http_error", "", NoDict),
      Response("bad_json", "", NoDict),
      Response("json", "null", NoDict),
      Response("json", "list", NoDict),
      Response("json", "dict", NoDict),
      Response("json", "dict", [ZoneInformation |-> "The Zone is 5. Local"]),
      Response("json", "dict", [ZoneInformation |-> "The Zone is  12"]),
      Response("json", "dict", [ZoneInformation |-> "The Zone is 5a"]),
      Response("json", "dict", [ZoneInformation |-> "xThe Zone is 5"]),
      Response("json", "dict", [ZoneInformation |-> None, Zone |-> " 7 "]),
      Response("json", "dict", [ZoneInformation |-> "No zone", Zone |-> "x", zoneNumber |-> "4"]),
      Response("json", "dict", [Zone |-> "", zone |-> None]) }

----------------------------------------------------------------------------
(* generate_pdf_bytes: the anchor table and the template page *)

ANCHORS ==
    << [key |-> "postage_date",   text |-> "01/27/2026"],
       [key |-> "postage_from",   text |-> "From 35020"],
       [key |-> "postage_weight", text |-> "1 lbs 0 ozs"],
       [key |-> "postage_zone",   text |-> "Zone 8"],
       [key |-> "s_name",         text |-> "Nicolas Robert"],
       [key |-> "r_name",         text |-> "ADAM RANEL"],
       [key |-> "routing",        text |-> "0003"],
       [key |-> "code",           text |-> "C003"],
       [key |-> "expected",       text |-> "Expected Delivery Date: 01/30/2026"],
       [key |-> "tracking_text",  text |-> "9405 5401 0962 8019 5574 80"],
       [key |-> "barcode_header", text |-> "USPS TRACKING #"],
       [key |-> "id_028w",        text |-> "028W0002310105"],
       [key |-> "id_2000",        text |-> "2000494248"] >>

AnchorKeys == {ANCHORS[n].key : n \in 1..Len(ANCHORS)}

\* page.search_for(anchor_text): the rects of the text's occurrences, in
\* content order
search_for(page, key) == page.occ[key]

NoRect == Rect(0, 0, 0, 0)

\* a call on the page or on the symbol renderer; the text of an insert_image is
\* the data of the symbol whose image is inserted
Call(op, key, rect, text) == [op |-> op, key |-> key, rect |-> rect, text |-> text]

\* the clear zone of a name block: + 190 wide, + 45 below (page units)
NameClearW == 190
NameClearH == 45
\* the barcode box: 90 either side of the header, from 1 to 70 below it (page units)
BarcodeSide == 90
BarcodeTop == 1
BarcodeDepth == 70
\* insets, in tenths of a page unit: 1.5 (code), 3.0 (barcode box), 0.5
\* (default), 2.2 (matrix slots)
CodeInset == 15
BarcodeInset == 30
DefaultInset == 5
MatrixInset == 22

BarcodeOuter(primary_rect) ==
    Rect(primary_rect.x0 - U(BarcodeSide), primary_rect.y1 + U(BarcodeTop),
         primary_rect.x1 + U(BarcodeSide), primary_rect.y1 + U(BarcodeDepth))

Inset(r, d) == Rect(r.x0 + d, r.y0 + d, r.x1 - d, r.y1 - d)

RedactCalls(key, rects) ==
    LET primary_rect == rects[1]
    IN  IF key \in {"s_name", "r_name"}
        THEN << Call("add_redact_annot", key,
                     Rect(primary_rect.x0, primary_rect.y0,
                          primary_rect.x0 + U(NameClearW), primary_rect.y1 + U(NameClearH)),
                     "") >>
        ELSE IF key = "code"
        THEN << Call("add_redact_annot", key, Inset(primary_rect, CodeInset), "") >>
        ELSE IF key = "barcode_header"
        THEN << Call("add_redact_annot", key,
                     Inset(BarcodeOuter(primary_rect), BarcodeInset), "") >>
        ELSE [n \in 1..Len(rects) |->
                 Call("add_redact_annot", key, Inset(rects[n], DefaultInset), "")]

MatrixRedactCalls(slots) ==
    [n \in 1..Len(slots) |->
        Call("add_redact_annot", "matrix_slots", Inset(slots[n], MatrixInset), "")]

IsRedactCall(c) == c.op \in {"add_redact_annot", "apply_redactions"}
IsOverlayCall(c) == c.op \in {"insert_text", "insert_image", "draw_rect"}

----------------------------------------------------------------------------
(* generate_pdf_bytes: what each queued item renders *)

DigitString == "0123456789"

RECURSIVE ToDigits(_)
ToDigits(n) ==
    IF n < 10 THEN CharAt(DigitString, n + 1)
    ELSE ToDigits(n \div 10) \o CharAt(DigitString, (n % 10) + 1)

RECURSIVE ZeroPad(_, _)
\* f"{n:0<width>d}"
ZeroPad(str, width) == IF Len(str) >= width THEN str ELSE ZeroPad("0" \o str, width)

Rand028wHi == 9999999
Rand2000Hi == 999999
Rand028wWidth == 7
Rand2000Width == 6

\* randint(0, hi), sampled at the low end of its range
RandDraws(hi) == {n \in 0..MaxRandDraw : n <= hi}

rand_028w(n) == "0028W000" \o ZeroPad(ToDigits(n), Rand028wWidth)
rand_2000(n) == "2000" \o ZeroPad(ToDigits(n), Rand2000Width)

CarrierCodes == <<"C003", "C008", "C013", "R144", "C001">>

\* SQUEEZE = 8.0 and the floor of 10 on w and h, in tenths of a page unit
Squeeze == 80
MinTarget == 100

\* the rect the DataMatrix image is squeezed and centred into
MatrixTarget(mr) ==
    LET w == Max(Width(mr) - 2 * Squeeze, MinTarget)
        h == Max(Height(mr) - 2 * Squeeze, MinTarget)
        x == (mr.x0 + mr.x1 - w) \div 2
        y == (mr.y0 + mr.y1 - h) \div 2
    IN  Rect(x, y, x + w, y + h)

ToZip(d) == Get(Get(d, "to", NoDict), "zip", "")

\* the DataMatrix block: one generate_barcode, then one insert_image per slot
MatrixPlan(d, slots) ==
    << Call("generate_barcode", "matrix_slots", NoRect,
            _gs1_element_string(ToZip(d), Get(d, "tracking", ""))) >>
    \o [n \in 1..Len(slots) |->
           Call("insert_image", "matrix_slots", MatrixTarget(slots[n]),
                _gs1_element_string(ToZip(d), Get(d, "tracking", "")))]

\* the paddings of the bars area, in tenths of a page unit: 6.0, 10.0, 4.0,
\* 20.0, 2.0, 10.0
SidePad == 60
SqueezeW == 100
TopPad == 40
DigitsArea == 200
StretchUp == 20
StretchDown == 100

BarsArea(slot) ==
    Rect(slot.x0 + SidePad + SqueezeW, slot.y0 + TopPad - StretchUp,
         slot.x1 - SidePad - SqueezeW, slot.y1 - DigitsArea + StretchDown)

\* the barcode_header block, inside its try
BarcodePlan(d, fc) ==
    LET content == barcode_content(ToZip(d), Get(d, "tracking", ""))
    IN  IF content.raised
        THEN << Call("raise", "barcode_header", NoRect, "TypeError") >>
        ELSE IF "barcode_slot" \notin DOMAIN fc
        THEN << Call("generate_barcode", "barcode_header", NoRect, content.value),
                Call("raise", "barcode_header", NoRect, "KeyError") >>
        ELSE << Call("generate_barcode", "barcode_header", NoRect, content.value),
                Call("insert_image", "barcode_header", BarsArea(fc["barcode_slot"]),
                     content.value),
                Call("insert_text", "barcode_header", fc["barcode_slot"],
                     display_text(Get(d, "tracking", ""))) >>

\* the three lines of an address block; KeyError when the request has no such
\* address
AddressPlan(d, key, who, rect) ==
    IF who \notin DOMAIN d
    THEN << Call("raise", key, NoRect, "KeyError") >>
    ELSE LET a == d[who]
         IN  << Call("insert_text", key, rect, a.name),
                Call("insert_text", key, rect, a.address),
                Call("insert_text", key, rect, a.city \o " " \o a.state \o " " \o a.zip) >>

\* f"Zone {data.get('zone', '')}"
ZoneText(d) == "Zone " \o PyStr(Get(d, "zone", ""))

\* the postage_* branch
PostagePlan(d, key, rect) ==
    IF key = "postage_from"
    THEN IF "from" \notin DOMAIN d
         THEN << Call("raise", key, NoRect, "KeyError") >>
         ELSE << Call("insert_text", key, rect, "From " \o PyStr(d["from"].zip)) >>
    ELSE IF key = "postage_zone"
    THEN << Call("insert_text", key, rect, ZoneText(d)) >>
    ELSE IF key = "postage_date"
    THEN << Call("insert_text", key, rect, PyStr(Get(d, "date", ""))) >>
    ELSE << Call("insert_text", key, rect, PyStr(Get(d, "weight", ""))) >>

ExpectedText(d) ==
    LET dd == Get(d, "delivery_date", "")
    IN  IF Truthy(dd) THEN "Expected Delivery Date: " \o dd ELSE "Expected Delivery Date:"

\* the if / elif chain on key: the calls of one queued item, carrier being the
\* index random.choice picks
KeyPlan(d, fc, rids, item, carrier) ==
    LET key == item.key
        rect == item.rect
    IN  IF key = "code"
        THEN << Call("insert_text", key, rect, CarrierCodes[carrier]),
                Call("draw_rect", key, rect, "") >>
        ELSE IF key = "barcode_header" THEN BarcodePlan(d, fc)
        ELSE IF key = "id_028w" THEN << Call("insert_text", key, rect, rids.r028w) >>
        ELSE IF key = "id_2000" THEN << Call("insert_text", key, rect, rids.r2000) >>
        ELSE IF key = "expected" THEN << Call("insert_text", key, rect, ExpectedText(d)) >>
        ELSE IF key = "s_name" THEN AddressPlan(d, key, "from", rect)
        ELSE IF key = "r_name" THEN AddressPlan(d, key, "to", rect)
        ELSE IF key = "routing" THEN << Call("insert_text", key, rect, "0003") >>
        ELSE IF key \in {"postage_date", "postage_from", "postage_weight", "postage_zone"}
        THEN PostagePlan(d, key, rect)
        ELSE << >>

CatchesNoKey(key) == FALSE

\* the key branches whose body is inside a try / except Exception
KeyBlockCaught(key) == key = "barcode_header"

\* the first n calls of plan succeed; if the plan is longer, call n + 1 raises
Ran(plan, n) ==
    [m \in 1..(IF n < Len(plan) THEN n + 1 ELSE n) |->
        [op |-> plan[m].op, key |-> plan[m].key, rect |-> plan[m].rect,
         text |-> plan[m].text, ok |-> m <= n]]

\* a "raise" step cannot succeed
CanRun(plan, n) == n \in 0..Len(plan) /\ \A m \in 1..n : plan[m].op # "raise"

Ok(calls) == [m \in 1..Len(calls) |->
                 [op |-> calls[m].op, key |-> calls[m].key, rect |-> calls[m].rect,
                  text |-> calls[m].text, ok |-> TRUE]]

----------------------------------------------------------------------------
(* Templates and requests the model draws from *)

AnchorNo(key) == CHOOSE n \in 1..Len(ANCHORS) : ANCHORS[n].key = key

\* the k-th occurrence of anchor number n on the sample page
TextRect(n, k) ==
    Rect(U(20) + (k - 1) * U(200), U(30) * n, U(100) + (k - 1) * U(200), U(30) * n + U(10))

Occurrences(key, count) == [k \in 1..count |-> TextRect(AnchorNo(key), k)]

\* every anchor count times; all but one anchor; one anchor alone; none
TextLayouts ==
    {[key \in AnchorKeys |-> Occurrences(key, c)] : c \in 1..MaxOcc}
    \cup {[key \in AnchorKeys |-> Occurrences(key, IF key = miss THEN 0 ELSE 1)] :
             miss \in AnchorKeys}
    \cup {[key \in AnchorKeys |-> Occurrences(key, IF key = only THEN c ELSE 0)] :
             only \in AnchorKeys, c \in 1..MaxOcc}
    \cup {[key \in AnchorKeys |-> << >>]}

FullLayout == [key \in AnchorKeys |-> Occurrences(key, 1)]

LogoImage == Rect(0, 0, U(500), U(500))
SlotImageA == Rect(U(300), U(600), U(340), U(642))
SlotImageB == Rect(U(20), U(500), U(55), U(535))

PageImageLists == { <<LogoImage>>, <<LogoImage, SlotImageA>>,
                    <<SlotImageA, LogoImage, SlotImageB>> }

Address(name, street, city, state, zip) ==
    [name |-> name, address |-> street, city |-> city, state |-> state, zip |-> zip]

BaseData ==
    [from |-> Address("Ann Lee", "1 Main St", "Bessemer", "AL", "35020"),
     to |-> Address("Bo Diaz", "2 Palm Dr", "Beverly Hills", "CA", "90210"),
     weight |-> "2 lbs 0 ozs",
     zone |-> "8",
     tracking |-> "9405 5401 0962 8019 55",
     date |-> "01/13/2026",
     delivery_date |-> "01/30/2026"]

Without(d, k) == [x \in DOMAIN d \ {k} |-> d[x]]

\* requests of the template-driven runs
DataSamples == {BaseData, Without(BaseData, "from")}

\* requests of the data-driven runs: zone and delivery date absent, null, empty
\* or given; a 9-digit destination; a null tracking number
DataVariants ==
    LET zoned == {Without(BaseData, "zone")}
                 \cup {[BaseData EXCEPT !.zone = z] : z \in {None, "", "8"}}
        dated == {[d EXCEPT !.delivery_date = dd] : d \in zoned, dd \in {None, "01/30/2026"}}
    IN  dated
        \cup {[d EXCEPT !.to.zip = "90210-1234"] : d \in zoned}
        \cup {[d EXCEPT !.tracking = None] : d \in zoned}

\* responses of the zone service in the pipeline runs
PipeResponses ==
    { Response("transport_error", "", NoDict),
      Response("json", "dict", [ZoneInformation |-> "The Zone is 5. Local"]) }

----------------------------------------------------------------------------
(* generate_pdf_bytes, step by step *)

NoIds == [r028w |-> "", r2000 |-> ""]
NoProbe == [fn |-> "none"]

InitCall(t, d) ==
    /\ pc = "start"
    /\ tpl = t
    /\ request = d
    /\ data = d
    /\ doc = "none"
    /\ found_coords = NoDict
    /\ insert_queue = << >>
    /\ rand_ids = NoIds
    /\ looked_up_zone = ""
    /\ requests = 0
    /\ i = 0
    /\ matrices_done = FALSE
    /\ trace = << >>
    /\ result = "none"

\* doc = fitz.open(...); page = doc[0]
Open ==
    /\ pc = "start"
    /\ doc' = "open"
    /\ pc' = "locate"
    /\ UNCHANGED <<tpl, request, data, found_coords, insert_queue, rand_ids, looked_up_zone,
                   requests, i, matrices_done, trace, result, probe>>

\* found_coords["matrix_slots"] = find_matrix_slots(page, want=2); the random ids
Locate ==
    /\ pc = "locate"
    /\ found_coords' = [matrix_slots |-> find_matrix_slots(tpl.images, WantSlots)]
    /\ \E a \in RandDraws(Rand028wHi), b \in RandDraws(Rand2000Hi) :
          rand_ids' = [r028w |-> rand_028w(a), r2000 |-> rand_2000(b)]
    /\ pc' = "zone"
    /\ UNCHANGED <<tpl, request, data, doc, insert_queue, looked_up_zone, requests, i,
                   matrices_done, trace, result, probe>>

OverwriteZoneIfUnset(d, zone) ==
    IF zone # "" /\ ~Truthy(Get(d, "zone", "")) THEN Put(d, "zone", zone) ELSE d

\* if looked_up_zone: data["zone"] = looked_up_zone
OverwriteZone(d, zone) == IF zone # "" THEN Put(d, "zone", zone) ELSE d

\* the zone lookup and the overwrite of data["zone"]
ZoneLookup ==
    /\ pc = "zone"
    /\ LET origin_zip == Get(Get(data, "from", NoDict), "zip", "")
           destination_zip == Get(Get(data, "to", NoDict), "zip", "")
           shipping_date == strip(OrEmpty(Get(data, "date", "")))
       IN  \E resp \in PipeResponses :
              LET r == fetch_usps_zone(origin_zip, destination_zip, shipping_date, resp)
              IN  /\ requests' = requests + r.calls
                  /\ IF r.raised
                     THEN /\ pc' = "raised"
                          /\ result' = "raised"
                          /\ UNCHANGED <<looked_up_zone, data, i>>
                     ELSE /\ looked_up_zone' = r.zone
                          /\ data' = OverwriteZone(data, r.zone)
                          /\ pc' = "phase1"
                          /\ i' = 1
                          /\ UNCHANGED result
    /\ UNCHANGED <<tpl, request, doc, found_coords, insert_queue, rand_ids,
                   matrices_done, trace, probe>>

QueueItemLastRect(key, rects) == [rect |-> rects[Len(rects)], key |-> key]

\* primary_rect = rects[0]; insert_queue.append({"rect": primary_rect, "key": key})
QueueItem(key, rects) == [rect |-> rects[1], key |-> key]

\* one iteration of the PHASE 1 loop
RedactAnchor ==
    /\ pc = "phase1"
    /\ i <= Len(ANCHORS)
    /\ LET key == ANCHORS[i].key
           rects == search_for(tpl, key)
       IN  IF rects = << >>
           THEN UNCHANGED <<found_coords, insert_queue, trace>>
           ELSE /\ found_coords' =
                      IF key = "barcode_header"
                      THEN Put(Put(found_coords, key, rects[1]),
                               "barcode_slot", BarcodeOuter(rects[1]))
                      ELSE Put(found_coords, key, rects[1])
                /\ trace' = trace \o Ok(RedactCalls(key, rects))
                /\ insert_queue' = Append(insert_queue, QueueItem(key, rects))
    /\ i' = i + 1
    /\ UNCHANGED <<pc, tpl, request, data, doc, rand_ids, looked_up_zone, requests,
                   matrices_done, result, probe>>

\* the loop over found_coords["matrix_slots"] that redacts inside each slot
RedactMatrixSlots ==
    /\ pc = "phase1"
    /\ i > Len(ANCHORS)
    /\ trace' = trace \o Ok(MatrixRedactCalls(Get(found_coords, "matrix_slots", << >>)))
    /\ pc' = "apply"
    /\ UNCHANGED <<tpl, request, data, doc, found_coords, insert_queue, rand_ids, looked_up_zone,
                   requests, i, matrices_done, result, probe>>

ApplyRedactionsSkipped ==
    /\ pc = "apply"
    /\ matrices_done' = FALSE
    /\ pc' = "phase2"
    /\ i' = 1
    /\ UNCHANGED <<tpl, request, data, doc, found_coords, insert_queue, rand_ids,
                   looked_up_zone, requests, trace, result, probe>>

\* page.apply_redactions(); matrices_done = False
ApplyRedactions ==
    /\ pc = "apply"
    /\ trace' = trace \o Ok(<< Call("apply_redactions", "", NoRect, "") >>)
    /\ matrices_done' = FALSE
    /\ pc' = "phase2"
    /\ i' = 1
    /\ UNCHANGED <<tpl, request, data, doc, found_coords, insert_queue, rand_ids, looked_up_zone,
                   requests, result, probe>>

MatrixGuardNeverSet(done, ran) == done

\* matrices_done after the iteration's DataMatrix block
MatrixGuardAfter(done, ran) == done \/ ran

\* one iteration of the PHASE 2 loop: the DataMatrix block, then the key's branch
InsertItem ==
    /\ pc = "phase2"
    /\ i <= Len(insert_queue)
    /\ LET item == insert_queue[i]
           slots == Get(found_coords, "matrix_slots", << >>)
           doMatrix == ~matrices_done /\ slots # << >>
           mplan == IF doMatrix THEN MatrixPlan(data, slots) ELSE << >>
       IN  \E carrier \in (IF item.key = "code" THEN 1..Len(CarrierCodes) ELSE {1}) :
           LET kplan == KeyPlan(data, found_coords, rand_ids, item, carrier)
           IN  \E m \in 0..Len(mplan), k \in 0..Len(kplan) :
                  /\ CanRun(mplan, m)
                  /\ CanRun(kplan, k)
                  /\ trace' = trace \o Ran(mplan, m) \o Ran(kplan, k)
                  /\ matrices_done' = MatrixGuardAfter(matrices_done, doMatrix)
                  /\ IF k < Len(kplan) /\ ~KeyBlockCaught(item.key)
                     THEN /\ pc' = "raised"
                          /\ result' = "raised"
                          /\ UNCHANGED i
                     ELSE /\ i' = i + 1
                          /\ UNCHANGED <<pc, result>>
    /\ UNCHANGED <<tpl, request, data, doc, found_coords, insert_queue, rand_ids, looked_up_zone,
                   requests, probe>>

\* pdf_bytes = doc.tobytes(...)
Serialize ==
    /\ pc = "phase2"
    /\ i > Len(insert_queue)
    /\ trace' = trace \o Ok(<< Call("tobytes", "", NoRect, "") >>)
    /\ pc' = "serialized"
    /\ UNCHANGED <<tpl, request, data, doc, found_coords, insert_queue, rand_ids, looked_up_zone,
                   requests, i, matrices_done, result, probe>>

\* doc.close()
Close ==
    /\ pc = "serialized"
    /\ doc' = "closed"
    /\ pc' = "closed"
    /\ UNCHANGED <<tpl, request, data, found_coords, insert_queue, rand_ids, looked_up_zone,
                   requests, i, matrices_done, trace, result, probe>>

\* return pdf_bytes
Return ==
    /\ pc = "closed"
    /\ result' = "bytes"
    /\ pc' = "returned"
    /\ UNCHANGED <<tpl, request, data, doc, found_coords, insert_queue, rand_ids, looked_up_zone,
                   requests, i, matrices_done, trace, probe>>

Init ==
    /\ probe = NoProbe
    /\ \E occ \in TextLayouts, images \in PageImageLists, d \in DataSamples :
          InitCall([occ |-> occ, images |-> images], d)

Next ==
    \/ Open
    \/ Locate
    \/ ZoneLookup
    \/ RedactAnchor
    \/ RedactMatrixSlots
    \/ ApplyRedactions
    \/ InsertItem
    \/ Serialize
    \/ Close
    \/ Return

Spec == Init /\ [][Next]_vars

\* the same call on the full template, over the request variants
InitData ==
    /\ probe = NoProbe
    /\ \E d \in DataVariants :
          InitCall([occ |-> FullLayout, images |-> <<SlotImageA, LogoImage, SlotImageB>>], d)

SpecData == InitData /\ [][Next]_vars

----------------------------------------------------------------------------
(* Calls of the pure functions on generated arguments *)

Idle ==
    /\ pc = "idle"
    /\ tpl = [occ |-> FullLayout, images |-> << >>]
    /\ request = NoDict
    /\ data = NoDict
    /\ doc = "none"
    /\ found_coords = NoDict
    /\ insert_queue = << >>
    /\ rand_ids = NoIds
    /\ looked_up_zone = ""
    /\ requests = 0
    /\ i = 0
    /\ matrices_done = FALSE
    /\ trace = << >>
    /\ result = "none"

\* image placements of the probed pages: the four sizes 40x42, 35x35, 500x500,
\* 15x15; a 35x35 half a unit and one exactly one unit away from the first; a
\* 35x35 straight above it; an empty rect; a 118x100; a 119x100
Img4042 == Rect(U(300), U(600), U(340), U(642))
Img3535 == Rect(U(20), U(500), U(55), U(535))
Img500 == Rect(0, 0, U(500), U(500))
Img15 == Rect(U(400), U(10), U(415), U(25))
Img3535Near == Rect(U(20) + 5, U(500) + 5, U(55) + 5, U(535) + 5)
Img3535Off1 == Rect(U(21), U(500), U(56), U(535))
Img3535High == Rect(U(20), U(100), U(55), U(135))
ImgEmpty == Rect(U(50), U(50), U(50), U(90))
ImgWide == Rect(U(100), U(300), U(218), U(400))
ImgTooWide == Rect(U(100), U(300), U(219), U(400))

ProbeImages == {Img4042, Img3535, Img500, Img15, Img3535Near, Img3535Off1,
                Img3535High, ImgEmpty, ImgWide, ImgTooWide}

ExampleImages == <<Img4042, Img3535, Img500, Img15>>

InitSlots ==
    /\ Idle
    /\ \E n \in 0..MaxImages : \E images \in [1..n -> ProbeImages] :
          /\ probe = [fn |-> "find_matrix_slots", images |-> images, done |-> FALSE,
                      out |-> << >>]

SlotsCall ==
    /\ probe.fn = "find_matrix_slots"
    /\ ~probe.done
    /\ probe' = [probe EXCEPT !.done = TRUE,
                              !.out = find_matrix_slots(probe.images, WantSlots)]
    /\ UNCHANGED pipeVars

SpecSlots == InitSlots /\ [][SlotsCall]_vars

ZipAlphabet == {"1", "-"}
ZipSamples == {None, "", "90210", "9021", "90210-1234", " 3 5 0 2 0 "}
DateSamples == {None, "", "  ", " 01/13/2026 "}
NoResponse == Response("none", "", NoDict)

InitZone ==
    /\ Idle
    /\ \E s \in StrsUpTo(ZipAlphabet, MaxStrLen), t \in ZipSamples, sd \in DateSamples :
       \E swap \in BOOLEAN :
          probe = [fn |-> "fetch_usps_zone",
                   origin |-> IF swap THEN t ELSE s,
                   dest |-> IF swap THEN s ELSE t,
                   date |-> sd, done |-> FALSE, resp |-> NoResponse,
                   out |-> [zone |-> "", calls |-> 0, raised |-> FALSE]]

\* one call: the request is answered (if one is issued) and the call returns
ZoneCall ==
    /\ probe.fn = "fetch_usps_zone"
    /\ ~probe.done
    /\ \E resp \in (IF ZoneRequestIssued(probe.origin, probe.dest, probe.date)
                    THEN ZoneResponses ELSE {NoResponse}) :
          probe' = [probe EXCEPT !.done = TRUE, !.resp = resp,
                       !.out = fetch_usps_zone(probe.origin, probe.dest, probe.date, resp)]
    /\ UNCHANGED pipeVars

SpecZone == InitZone /\ [][ZoneCall]_vars

PayAlphabet == {"9", "0", "-", " "}
PaySamples == StrsUpTo(PayAlphabet, MaxPayLen) \cup {"90210-1234", "94 05-54", "a1b2"}

InitPayload ==
    /\ Idle
    /\ \E z \in PaySamples, t \in PaySamples :
          probe = [fn |-> "payload", zip |-> z, tracking |-> t, done |-> FALSE,
                   matrix |-> "", linear |-> ""]

\* the element string of the DataMatrix block and the content of the barcode block
PayloadCall ==
    /\ probe.fn = "payload"
    /\ ~probe.done
    /\ probe' = [probe EXCEPT !.done = TRUE,
                    !.matrix = _gs1_element_string(probe.zip, probe.tracking),
                    !.linear = barcode_content(probe.zip, probe.tracking).value]
    /\ UNCHANGED pipeVars

SpecPayload == InitPayload /\ [][PayloadCall]_vars

----------------------------------------------------------------------------
(* Properties *)

TraceIdx == 1..Len(trace)
Found(key) == tpl.occ[key] # << >>
Slots == Get(found_coords, "matrix_slots", << >>)
Last(seq) == seq[Len(seq)]

\* the anchors whose redaction covers one region, whatever the occurrences
OneRegionKeys == {"s_name", "r_name", "code", "barcode_header"}

\* C1: before the first overlay call (insert_text, insert_image, draw_rect) the
\* regions of every found anchor and of every matrix slot have been given to
\* add_redact_annot, then apply_redactions has run exactly once; after an
\* overlay call there is no add_redact_annot and no apply_redactions.
C1_RedactBeforeOverlay ==
    LET overlays == {b \in TraceIdx : IsOverlayCall(trace[b])}
    IN  overlays # {} =>
            LET first == CHOOSE b \in overlays : \A c \in overlays : b <= c
                before == SubSeq(trace, 1, first - 1)
                applied == {p \in 1..Len(before) : before[p].op = "apply_redactions"}
                Regions(key) ==
                    {a \in 1..Len(before) :
                        before[a].op = "add_redact_annot" /\ before[a].key = key}
            IN  /\ \A c \in first..Len(trace) : ~IsRedactCall(trace[c])
                /\ Cardinality(applied) = 1
                /\ \A a \in 1..Len(before) :
                      before[a].op = "add_redact_annot" => \A p \in applied : a < p
                /\ \A key \in AnchorKeys :
                      Cardinality(Regions(key))
                      = IF key \in OneRegionKeys /\ Found(key) THEN 1 ELSE Len(tpl.occ[key])
                /\ Cardinality(Regions("matrix_slots"))
                   = Len(find_matrix_slots(tpl.images, WantSlots))

C1_Witness ==
    /\ pc = "returned"
    /\ Len(Slots) = 2
    /\ Len(tpl.occ["routing"]) = 2
    /\ \E b \in TraceIdx : trace[b].op = "insert_image" /\ trace[b].key = "matrix_slots"
    /\ \E b \in TraceIdx : trace[b].op = "draw_rect"

\* C2: no call of generate_pdf_bytes has returned or raised with its document
\* still open.
C2_DocClosedOnEveryExit == pc \in {"returned", "raised"} => doc = "closed"

\* C3 as stated: no failure of the zone lookup or of an overlay's render makes
\* generate_pdf_bytes raise.
C3_NoRenderFailureAborts == pc # "raised"

CaughtKeys == {"matrix_slots", "barcode_header"}

\* C3 as amended: a failed zone request, and a failed call of the DataMatrix
\* block or of the barcode_header block, do not abort the call: the loop goes
\* on to the later items, and the call returns the bytes unless another
\* overlay fails.  A failed call of any other key's branch aborts the call at
\* once: it is the last call made, and the call raises.
C3_OnlyTheTwoBlocksCatch ==
    /\ \A n \in TraceIdx :
          ~trace[n].ok =>
              IF trace[n].key \in CaughtKeys
              THEN pc # "raised" \/ n < Len(trace)
              ELSE pc = "raised" /\ n = Len(trace)
    /\ pc = "raised" => trace # << >> /\ ~Last(trace).ok /\ Last(trace).key \notin CaughtKeys
    /\ pc = "returned" =>
          /\ result = "bytes"
          /\ \A q \in 1..Len(insert_queue) :
                insert_queue[q].key \notin CaughtKeys \cup {"tracking_text"} =>
                    \E n \in TraceIdx :
                        /\ trace[n].op = "insert_text"
                        /\ trace[n].key = insert_queue[q].key
                        /\ trace[n].ok

\* a failed zone request, a failed DataMatrix image and a failed barcode, and
\* still the bytes and the overlays after the barcode
C3_Witness ==
    /\ pc = "returned"
    /\ requests = 1
    /\ looked_up_zone = ""
    /\ \E n \in TraceIdx :
          trace[n].op = "generate_barcode" /\ trace[n].key = "matrix_slots" /\ ~trace[n].ok
    /\ \E n \in TraceIdx : \E m \in TraceIdx :
          /\ trace[n].key = "barcode_header" /\ ~trace[n].ok
          /\ m > n
          /\ trace[m].key = "id_2000" /\ trace[m].ok


DigitCount(str) ==
    IF str = None THEN 0 ELSE Cardinality({n \in 1..Len(str) : CharAt(str, n) \in Digits})
HasDate(str) == str # None /\ \E n \in 1..Len(str) : CharAt(str, n) \notin Spaces

\* the answers that carry no zone: the request fails, the status is an error,
\* the body is not JSON, or the JSON has neither the sentence nor a numeric key
NoZoneAnswer(resp) ==
    \/ resp.kind \in {"transport_error", "http_error", "bad_json"}
    \/ resp.kind = "json" /\ resp.shape \in {"null", "list"}
    \/ resp.kind = "json" /\ resp.shape = "dict"
       /\ ~(\E k \in {"Zone", "zone", "ZoneNumber", "zoneNumber"} :
               k \in DOMAIN resp.d /\ resp.d[k] \in {" 7 ", "4"})
       /\ ("ZoneInformation" \in DOMAIN resp.d =>
               resp.d["ZoneInformation"] \notin {"The Zone is 5. Local", "The Zone is  12"})

\* C4: a call of fetch_usps_zone makes one request when both postal codes hold
\* exactly 5 digits and the ship date has a non-blank character, and none
\* otherwise; it never makes two; it never raises; and when no request is made,
\* or the answer carries no zone, it returns "".
C4_OneRequestOrNone ==
    (probe.fn = "fetch_usps_zone" /\ probe.done) =>
        /\ probe.out.calls =
              IF DigitCount(probe.origin) = 5 /\ DigitCount(probe.dest) = 5
                 /\ HasDate(probe.date)
              THEN 1 ELSE 0
        /\ ~probe.out.raised
        /\ probe.out.calls = 0 => probe.out.zone = ""
        /\ (probe.out.calls = 1 /\ NoZoneAnswer(probe.resp)) => probe.out.zone = ""

C4_Witness ==
    /\ probe.fn = "fetch_usps_zone"
    /\ probe.done
    /\ probe.origin = "1-1111"
    /\ probe.dest = " 3 5 0 2 0 "
    /\ probe.resp.kind = "bad_json"
    /\ probe.out = [zone |-> "", calls |-> 1, raised |-> FALSE]

BeforeZoneStep == pc \in {"start", "locate", "zone"}

\* C5: before the zone step the working request is the caller's; from the zone
\* step on it is the caller's request with zone set to the looked-up zone if
\* the lookup resolved, and the caller's request unchanged (zone included) if
\* it did not.
C5_ZoneOverwrite ==
    IF BeforeZoneStep \/ looked_up_zone = ""
    THEN data = request
    ELSE /\ DOMAIN data = DOMAIN request \cup {"zone"}
         /\ data["zone"] = looked_up_zone
         /\ \A k \in DOMAIN request \ {"zone"} : data[k] = request[k]

C5_Witness ==
    /\ pc = "returned"
    /\ Get(request, "zone", "") = "8"
    /\ looked_up_zone = "5"
    /\ data["zone"] = "5"

MatrixGen == {n \in TraceIdx : trace[n].op = "generate_barcode" /\ trace[n].key = "matrix_slots"}
MatrixIns == {n \in TraceIdx : trace[n].op = "insert_image" /\ trace[n].key = "matrix_slots"}

\* C6 as stated: the DataMatrix image is generated at most once; with no slot
\* none is generated or inserted; once it is generated, the image is in every
\* found slot.
C6_GeneratedImageInEverySlot ==
    /\ Cardinality(MatrixGen) <= 1
    /\ Slots = << >> => MatrixGen = {} /\ MatrixIns = {}
    /\ \A g \in MatrixGen :
          (trace[g].ok /\ matrices_done) =>
              \A k \in 1..Len(Slots) :
                  \E n \in MatrixIns :
                      /\ trace[n].ok
                      /\ trace[n].rect = MatrixTarget(Slots[k])
                      /\ trace[n].text = trace[g].text

\* C6 as amended: the DataMatrix image is generated at most once in a call,
\* failed attempt included; with no slot none is generated or inserted; an
\* image is inserted only after the one successful generation, it is that
\* image, and the insertions go slot by slot in the order found; if no
\* insertion raises every found slot gets the image, and an insertion that
\* raises is caught and ends the block, so that the slots after it get none.
C6_MatrixOnce ==
    /\ Cardinality(MatrixGen) <= 1
    /\ Slots = << >> => MatrixGen = {} /\ MatrixIns = {}
    /\ MatrixIns # {} => \E g \in MatrixGen : trace[g].ok
    /\ \A g \in MatrixGen :
          /\ MatrixIns \subseteq (g + 1)..(g + Len(Slots))
          /\ \A n \in MatrixIns :
                /\ \A m \in (g + 1)..n : m \in MatrixIns
                /\ trace[n].rect = MatrixTarget(Slots[n - g])
                /\ trace[n].text = trace[g].text
                /\ ~trace[n].ok => \A m \in MatrixIns : m <= n
          /\ (matrices_done /\ trace[g].ok /\ \A n \in MatrixIns : trace[n].ok) =>
                Cardinality(MatrixIns) = Len(Slots)
          /\ ~trace[g].ok => MatrixIns = {}

C6_Witness ==
    /\ pc = "returned"
    /\ Len(Slots) = 2
    /\ Cardinality(MatrixIns) = 2
    /\ \A n \in MatrixIns : trace[n].ok
    /\ Len(insert_queue) = Len(ANCHORS)


\* width / height in [0.85, 1.18], width and height in [20, 160]
Qualifies(r) ==
    /\ 85 * (r.y1 - r.y0) <= 100 * (r.x1 - r.x0)
    /\ 100 * (r.x1 - r.x0) <= 118 * (r.y1 - r.y0)
    /\ r.x1 - r.x0 \in U(20)..U(160)
    /\ r.y1 - r.y0 \in U(20)..U(160)

\* a is not after b: smaller area, or equal area and top edge not smaller
NotAfter(a, b) ==
    LET aa == (a.x1 - a.x0) * (a.y1 - a.y0)
        ab == (b.x1 - b.x0) * (b.y1 - b.y0)
    IN  aa < ab \/ (aa = ab /\ a.y0 >= b.y0)

\* all four edges less than one unit apart
Within1(a, b) ==
    \A f \in {"x0", "y0", "x1", "y1"} : a[f] - b[f] < U(1) /\ b[f] - a[f] < U(1)

\* C7: find_matrix_slots returns at most 2 rects, each an image rect of the
\* page with width / height in [0.85, 1.18] and both sides in [20, 160]; the
\* first is a qualifying rect no other qualifying rect comes before (ascending
\* area, ties by larger top edge); two returned rects are in that order and
\* not within 1 unit of each other on all four edges; every qualifying rect
\* that is not returned is within 1 unit of a returned rect that is not after
\* it, or is not before the second returned rect; the result is empty exactly
\* when no image qualifies; and for images sized 40x42, 35x35, 500x500, 15x15
\* the result is the 35x35 rect followed by the 40x42 rect.
C7_MatrixSlots ==
    (probe.fn = "find_matrix_slots" /\ probe.done) =>
        LET out == probe.out
            cand == {probe.images[n] : n \in {m \in 1..Len(probe.images) :
                                                Qualifies(probe.images[m])}}
        IN  /\ Len(out) <= 2
            /\ \A k \in 1..Len(out) : out[k] \in cand
            /\ out = << >> <=> cand = {}
            /\ out # << >> => \A c \in cand : NotAfter(out[1], c)
            /\ Len(out) = 2 => NotAfter(out[1], out[2]) /\ ~Within1(out[1], out[2])
            /\ \A c \in cand :
                  \/ \E k \in 1..Len(out) : out[k] = c
                  \/ \E k \in 1..Len(out) : Within1(c, out[k]) /\ NotAfter(out[k], c)
                  \/ Len(out) = 2 /\ NotAfter(out[2], c)
            /\ probe.images = ExampleImages => out = <<Img3535, Img4042>>

C7_Witness ==
    /\ probe.fn = "find_matrix_slots"
    /\ probe.done
    /\ probe.images = ExampleImages
    /\ probe.out = <<Img3535, Img4042>>

\* out is str with every character that is not a digit removed
IsDigitsOf(out, str) ==
    LET pos == {n \in 1..Len(str) : CharAt(str, n) \in Digits}
    IN  /\ Len(out) = Cardinality(pos)
        /\ \A n \in pos : CharAt(out, Cardinality({m \in pos : m <= n})) = CharAt(str, n)

\* C8: the DataMatrix data is "(420)", the digits of the zip, "(91)", the
\* digits of the tracking string; the code128 content is "420", the digits of
\* the zip, GS, the digits of the tracking string; each input is stripped on
\* its own, stripping a stripped string changes nothing, and for "90210-1234"
\* and "94 05-54" the DataMatrix data is "(420)902101234(91)940554".
C8_Payloads ==
    (probe.fn = "payload" /\ probe.done) =>
        LET nz == DigitCount(probe.zip)
            nt == DigitCount(probe.tracking)
            m == probe.matrix
            l == probe.linear
        IN  /\ Len(m) = 5 + nz + 4 + nt
            /\ SubSeq(m, 1, 5) = "(420)"
            /\ IsDigitsOf(SubSeq(m, 6, 5 + nz), probe.zip)
            /\ SubSeq(m, 6 + nz, 9 + nz) = "(91)"
            /\ IsDigitsOf(SubSeq(m, 10 + nz, Len(m)), probe.tracking)
            /\ Len(l) = 3 + nz + Len(GS) + nt
            /\ SubSeq(l, 1, 3) = "420"
            /\ IsDigitsOf(SubSeq(l, 4, 3 + nz), probe.zip)
            /\ SubSeq(l, 4 + nz, 3 + nz + Len(GS)) = GS
            /\ IsDigitsOf(SubSeq(l, 4 + nz + Len(GS), Len(l)), probe.tracking)
            /\ digitsOnly(digitsOnly(probe.zip)) = digitsOnly(probe.zip)
            /\ digitsOnly(digitsOnly(probe.tracking)) = digitsOnly(probe.tracking)
            /\ (probe.zip = "90210-1234" /\ probe.tracking = "94 05-54") =>
                  m = "(420)902101234(91)940554"

C8_Witness ==
    /\ probe.fn = "payload"
    /\ probe.done
    /\ probe.zip = "90210-1234"
    /\ probe.tracking = "94 05-54"
    /\ probe.matrix = "(420)902101234(91)940554"
    /\ probe.linear = "420902101234" \o GS \o "940554"


TableKeys == [n \in 1..Len(ANCHORS) |-> ANCHORS[n].key]

\* anchors whose PHASE 1 iteration is over
Scanned ==
    IF BeforeZoneStep THEN 0
    ELSE IF pc = "phase1" THEN i - 1
    ELSE Len(ANCHORS)

\* queued items whose PHASE 2 iteration has begun
Visited ==
    IF BeforeZoneStep \/ pc \in {"phase1", "apply"} THEN 0
    ELSE IF pc = "raised" THEN i
    ELSE i - 1

PhaseTwoDone == pc \in {"serialized", "closed", "returned"}

\* the overlay calls a key's branch makes when none fails
BranchCalls(key) ==
    IF key \in {"s_name", "r_name"} THEN 3
    ELSE IF key = "code" THEN 2
    ELSE IF key = "tracking_text" THEN 0
    ELSE IF key = "barcode_header" THEN 2
    ELSE 1

KeyOverlays(key) == {n \in TraceIdx : IsOverlayCall(trace[n]) /\ trace[n].key = key}

\* C9: the queue holds one item for each found anchor among those scanned so
\* far, in table order, and none for an anchor that was not found; each item's
\* rect is the first occurrence's rect; an anchor that was not found has no
\* redaction and no overlay; the overlays appear in queue order, only for
\* items the loop has reached, each item's branch at most once and drawn at
\* the item's rect; and when the insertion loop is over every item has been
\* visited and every found anchor outside the two guarded blocks has all the
\* overlay calls of its branch.
C9_QueueFollowsTable ==
    LET IsKeyOverlay(c) == IsOverlayCall(c) /\ c.key \in AnchorKeys
        drawn == SelectSeq(trace, IsKeyOverlay)
        reached == {insert_queue[q].key : q \in 1..Visited}
    IN  /\ [q \in 1..Len(insert_queue) |-> insert_queue[q].key]
              = SelectSeq(SubSeq(TableKeys, 1, Scanned), Found)
        /\ \A q \in 1..Len(insert_queue) :
              insert_queue[q].rect = tpl.occ[insert_queue[q].key][1]
        /\ \A n \in TraceIdx : trace[n].key \in AnchorKeys => Found(trace[n].key)
        /\ \A n \in 1..Len(drawn) :
              /\ drawn[n].key \in reached
              /\ drawn[n].key # "barcode_header" => drawn[n].rect = tpl.occ[drawn[n].key][1]
              /\ n > 1 => AnchorNo(drawn[n - 1].key) <= AnchorNo(drawn[n].key)
        /\ \A key \in AnchorKeys : Cardinality(KeyOverlays(key)) <= BranchCalls(key)
        /\ PhaseTwoDone =>
              /\ Visited = Len(insert_queue)
              /\ \A key \in AnchorKeys :
                    (Found(key) /\ key # "barcode_header") =>
                        /\ Cardinality(KeyOverlays(key)) = BranchCalls(key)
                        /\ \A n \in KeyOverlays(key) : trace[n].ok

C9_Witness ==
    /\ pc = "returned"
    /\ ~Found("code")
    /\ Found("routing")
    /\ Len(insert_queue) = Len(ANCHORS) - 1
    /\ KeyOverlays("code") = {}
    /\ Cardinality(KeyOverlays("routing")) = 1

\* C10: the text rendered for the zone-display anchor is "Zone " followed by the
\* looked-up zone if the lookup resolved, else by the zone string of the
\* request, else (zone absent or null) by nothing.
C10_ZoneDisplayText ==
    \A n \in TraceIdx :
        (trace[n].op = "insert_text" /\ trace[n].key = "postage_zone" /\ trace[n].ok) =>
            trace[n].text =
                "Zone " \o (IF looked_up_zone # "" THEN looked_up_zone
                            ELSE IF "zone" \in DOMAIN request /\ request["zone"] # None
                            THEN request["zone"]
                            ELSE "")

\* the regions erased for key: its redaction annotations, once applied
Erased(key) ==
    /\ \E n \in TraceIdx : trace[n].op = "add_redact_annot" /\ trace[n].key = key
    /\ \E n \in TraceIdx : trace[n].op = "apply_redactions"

\* the steps of the insertion phase made for key: a symbol generation, an
\* overlay, or the statement of the branch that raised
Attempts(key) ==
    {n \in TraceIdx : trace[n].key = key /\ ~IsRedactCall(trace[n])}

\* the printed tracking digits are drawn by the barcode_header branch
TrackingDigitsAttempted == Attempts("tracking_text") \cup Attempts("barcode_header") # {}

\* the erased tracking digits get their replacement
TrackingTextReplaced == Erased("tracking_text") => TrackingDigitsAttempted

\* the erased matrix slots get their symbol
MatrixSlotsReplaced == Erased("matrix_slots") => MatrixGen # {}

\* C11: when the insertion phase has run to its end, every region erased in
\* phase 1 has had the render of its replacement attempted: each erased text
\* anchor its own overlay, the erased tracking digits the grouped digits (also
\* when the barcode header anchor was not found), the erased matrix slots the
\* matrix symbol (also when no text anchor was found).
C11_ErasedRegionsReplaced ==
    PhaseTwoDone =>
        /\ \A key \in AnchorKeys \ {"tracking_text"} : Erased(key) => Attempts(key) # {}
        /\ TrackingTextReplaced
        /\ MatrixSlotsReplaced

\* C11, the tracking digits alone
C11_TrackingDigitsReplaced == PhaseTwoDone => TrackingTextReplaced

\* C11, the matrix slots alone
C11_MatrixSymbolReplaced == PhaseTwoDone => MatrixSlotsReplaced

\* C11, every anchor with a branch of its own
C11_BranchedAnchorsReplaced ==
    PhaseTwoDone =>
        \A key \in AnchorKeys \ {"tracking_text"} : Erased(key) => Attempts(key) # {}

============================================================================
